---- MODULE Spec2Model ----
(***************************************************************************)
(* Workflow state machine of frontend/src/App.js: the React component App  *)
(* with its state hooks, its event handlers, the controls' disabled        *)
(* attributes and the one asynchronous POST /process request.              *)
(*                                                                         *)
(* JavaScript values are modelled as strings; template literals are        *)
(* modelled as the sequence of their pieces, so that "the status contains  *)
(* the server's text" is a property of the value built by the code.        *)
(* A handler's state updates are committed in one render; the effect of    *)
(* lines 149-159 runs after that render when one of its dependencies       *)
(* changed, and before any further event is handled.                       *)
(***************************************************************************)
EXTENDS Integers, Sequences, FiniteSets, TLC

VARIABLES diseaseName, url, selectedFile, status, isLoading,
          processedFileId, activeStep, effectPending, inflight, lastResponse,
          opened, event

vars == <<diseaseName, url, selectedFile, status, isLoading,
          processedFileId, activeStep, effectPending, inflight, lastResponse,
          opened, event>>

(* ---------------- bounds ---------------- *)

\* Largest number of POST /process requests awaiting their response.
MaxInFlight == 2

(* ---------------- JavaScript values ---------------- *)

Null == "<null>"

Undefined == "<undefined>"

\* JavaScript truthiness of a string-or-null value.
Truthy(v) == v \notin {Null, Undefined, ""}

\* event.target.files[0] when the file list is empty; selectedFile when null.
NoFile == [name |-> "", type |-> ""]

CsvFiles == {[name |-> "patients.csv", type |-> "text/csv"],
             [name |-> "cohort.csv", type |-> "text/csv"]}

\* Files the picker can hand over whose declared type is not text/csv.
OtherFiles == {[name |-> "notes.txt", type |-> "text/plain"],
               [name |-> "export.csv", type |-> "application/vnd.ms-excel"]}

PickedFiles == CsvFiles \cup OtherFiles \cup {NoFile}

DiseaseNames == {"", "Diabetes", "Asthma"}

SourceUrls == {"", "https://example.org/ref"}

FileIds == {"abc123", "def456"}

SuccessMessages == {"Appended 10 rows"}

API_BASE_URL == "https://medical-data-generator.onrender.com"

NoResponse == [ok |-> FALSE, file_id |-> Undefined, message |-> "",
               hasResponse |-> FALSE, detail |-> Undefined]

\* axios resolves: response.data = {file_id, message}.
SuccessResponses == {[ok |-> TRUE, file_id |-> id, message |-> m,
                      hasResponse |-> TRUE, detail |-> Undefined] :
                        id \in FileIds, m \in SuccessMessages}

\* axios rejects: a network error (no error.response), or a non-2xx response
\* whose body may or may not carry a detail.
FailureResponses ==
  {[ok |-> FALSE, file_id |-> Undefined, message |-> "Network Error",
    hasResponse |-> FALSE, detail |-> Undefined],
   [ok |-> FALSE, file_id |-> Undefined,
    message |-> "Request failed with status code 400",
    hasResponse |-> TRUE, detail |-> "Invalid URL"],
   [ok |-> FALSE, file_id |-> Undefined,
    message |-> "Request failed with status code 500",
    hasResponse |-> TRUE, detail |-> Undefined]}

\* A template literal contains t when t is one of its pieces (or t is empty).
Contains(s, t) == t = "" \/ \E i \in 1..Len(s) : s[i] = t

(* ---------------- status messages ---------------- *)

WelcomeStatus == <<"Welcome! Please follow the steps to generate your dataset.">>

SelectedStatus(file) ==
  <<"Base file selected: ", file.name, ". Please provide the disease context.">>

InvalidFileStatus == <<"Invalid file. Please select a valid .csv file.">>

MustCompleteStatus == <<"Error: You must complete all steps before processing.">>

ProcessingStatus == <<"Processing... This may take a moment.">>

\* Mutant: the success notice drops the server's text.
SuccessStatus_noMessage(response) == <<"Success: ">>

\* The check-mark and cross glyphs that open the two literals of lines 193 and
\* 195 are left out of the first piece: the notation has ASCII strings only.
SuccessStatus(response) == <<"Success: ", response.message>>

\* error.response?.data?.detail
ErrorDetail(error) == IF error.hasResponse THEN error.detail ELSE Undefined

\* Mutant: the server's detail is ignored.
ErrorText_messageOnly(error) == error.message

\* error.response?.data?.detail || error.message
ErrorText(error) ==
  IF Truthy(ErrorDetail(error)) THEN ErrorDetail(error) ELSE error.message

ErrorStatus(error) == <<"Error: ", ErrorText(error)>>

(* ---------------- derived values ---------------- *)

\* Mutant: the complete-inputs test comes before the result test.
deriveStep_readyFirst(pid, file, disease, u) ==
  IF file # NoFile /\ Truthy(disease) /\ Truthy(u) THEN 2
  ELSE IF Truthy(pid) THEN 3
  ELSE IF file # NoFile THEN 1
  ELSE 0

\* Mutant: the file-only test comes before the complete-inputs test.
deriveStep_fileFirst(pid, file, disease, u) ==
  IF Truthy(pid) THEN 3
  ELSE IF file # NoFile THEN 1
  ELSE IF file # NoFile /\ Truthy(disease) /\ Truthy(u) THEN 2
  ELSE 0

\* The effect of lines 149-159.
deriveStep(pid, file, disease, u) ==
  IF Truthy(pid) THEN 3
  ELSE IF file # NoFile /\ Truthy(disease) /\ Truthy(u) THEN 2
  ELSE IF file # NoFile THEN 1
  ELSE 0

\* !selectedFile || !diseaseName || !url
InputsMissing == selectedFile = NoFile \/ ~Truthy(diseaseName) \/ ~Truthy(url)

\* Mutant: the Process button's disabled attribute forgets the URL.
ProcessDisabled_noUrl == isLoading \/ selectedFile = NoFile \/ ~Truthy(diseaseName)

\* Mutant: the Process button is not disabled while loading.
ProcessDisabled_noLoading == InputsMissing

\* disabled attribute of the Process button.
ProcessDisabled == isLoading \/ InputsMissing

\* disabled attribute of the Download Result button.
DownloadDisabled == isLoading \/ ~Truthy(processedFileId)

\* Mutant: the text fields are never disabled.
TextFieldDisabled_never == FALSE

\* disabled attribute of the two text fields.
TextFieldDisabled == isLoading

FormData == [file |-> selectedFile, disease_name |-> diseaseName, url |-> url]

(* ---------------- initial state ---------------- *)

Init ==
  /\ diseaseName = ""
  /\ url = ""
  /\ selectedFile = NoFile
  /\ status = WelcomeStatus
  /\ isLoading = FALSE
  /\ processedFileId = Null
  /\ activeStep = 0
  /\ effectPending = FALSE
  /\ inflight = <<>>
  /\ lastResponse = NoResponse
  /\ opened = <<>>
  /\ event = "init"

(* ---------------- handlers ---------------- *)

\* Mutant: processedFileId is missing from the effect's dependency array.
depsChanged_noResultId ==
  <<selectedFile', diseaseName', url'>> # <<selectedFile, diseaseName, url>>

\* The dependency array of the effect, compared across a render.
depsChanged ==
  <<selectedFile', diseaseName', url', processedFileId'>>
    # <<selectedFile, diseaseName, url, processedFileId>>

\* The render that follows a handler: activeStep is still the stored value,
\* and the effect is scheduled when a dependency changed.
Commit ==
  /\ UNCHANGED activeStep
  /\ effectPending' = depsChanged

\* The effect of lines 149-159 running after the render.
stepEffect ==
  /\ effectPending
  /\ activeStep' = deriveStep(processedFileId, selectedFile, diseaseName, url)
  /\ effectPending' = FALSE
  /\ UNCHANGED <<diseaseName, url, selectedFile, status, isLoading,
                 processedFileId, inflight, lastResponse, opened, event>>

\* Mutant: the declared media type is not tested.
handleFileSelect_anyType(file) ==
  /\ IF file # NoFile
     THEN /\ selectedFile' = file
          /\ processedFileId' = Null
          /\ status' = SelectedStatus(file)
     ELSE /\ selectedFile' = NoFile
          /\ status' = InvalidFileStatus
          /\ UNCHANGED processedFileId
  /\ event' = "handleFileSelect"
  /\ UNCHANGED <<diseaseName, url, isLoading, inflight, lastResponse, opened>>
  /\ Commit

\* Mutant: an accepted selection does not reset processedFileId.
handleFileSelect_keepId(file) ==
  /\ IF file # NoFile /\ file.type = "text/csv"
     THEN /\ selectedFile' = file
          /\ status' = SelectedStatus(file)
     ELSE /\ selectedFile' = NoFile
          /\ status' = InvalidFileStatus
  /\ event' = "handleFileSelect"
  /\ UNCHANGED <<diseaseName, url, isLoading, processedFileId, inflight,
                 lastResponse, opened>>
  /\ Commit

handleFileSelect(file) ==
  /\ IF file # NoFile /\ file.type = "text/csv"
     THEN /\ selectedFile' = file
          /\ processedFileId' = Null
          /\ status' = SelectedStatus(file)
     ELSE /\ selectedFile' = NoFile
          /\ status' = InvalidFileStatus
          /\ UNCHANGED processedFileId
  /\ event' = "handleFileSelect"
  /\ UNCHANGED <<diseaseName, url, isLoading, inflight, lastResponse, opened>>
  /\ Commit

\* onDelete of the Chip, rendered only while a file is selected.
chipDelete ==
  /\ selectedFile # NoFile
  /\ selectedFile' = NoFile
  /\ processedFileId' = Null
  /\ event' = "chipDelete"
  /\ UNCHANGED <<diseaseName, url, status, isLoading, inflight, lastResponse, opened>>
  /\ Commit

\* onChange of the Disease Name field.
setDiseaseName(value) ==
  /\ ~TextFieldDisabled
  /\ value # diseaseName
  /\ diseaseName' = value
  /\ event' = "setDiseaseName"
  /\ UNCHANGED <<url, selectedFile, status, isLoading, processedFileId,
                 inflight, lastResponse, opened>>
  /\ Commit

\* onChange of the Medical Source URL field.
setUrl(value) ==
  /\ ~TextFieldDisabled
  /\ value # url
  /\ url' = value
  /\ event' = "setUrl"
  /\ UNCHANGED <<diseaseName, selectedFile, status, isLoading, processedFileId,
                 inflight, lastResponse, opened>>
  /\ Commit

\* Mutant: setProcessedFileId(null) is missing before the request.
handleProcess_keepResult ==
  /\ IF InputsMissing
     THEN /\ status' = MustCompleteStatus
          /\ UNCHANGED <<isLoading, inflight>>
     ELSE /\ Len(inflight) < MaxInFlight
          /\ isLoading' = TRUE
          /\ status' = ProcessingStatus
          /\ inflight' = Append(inflight, FormData)
  /\ event' = "handleProcess"
  /\ UNCHANGED <<diseaseName, url, selectedFile, processedFileId,
                 lastResponse, opened>>
  /\ Commit

\* Mutant: the precondition branch lacks its return.
handleProcess_noReturn ==
  /\ Len(inflight) < MaxInFlight
  /\ isLoading' = TRUE
  /\ processedFileId' = Null
  /\ status' = ProcessingStatus
  /\ inflight' = Append(inflight, FormData)
  /\ event' = "handleProcess"
  /\ UNCHANGED <<diseaseName, url, selectedFile, lastResponse, opened>>
  /\ Commit

\* handleProcess up to its await: the precondition check, the three state
\* updates and the POST.
handleProcess ==
  /\ IF InputsMissing
     THEN /\ status' = MustCompleteStatus
          /\ UNCHANGED <<isLoading, processedFileId, inflight>>
     ELSE /\ Len(inflight) < MaxInFlight
          /\ isLoading' = TRUE
          /\ processedFileId' = Null
          /\ status' = ProcessingStatus
          /\ inflight' = Append(inflight, FormData)
  /\ event' = "handleProcess"
  /\ UNCHANGED <<diseaseName, url, selectedFile, lastResponse, opened>>
  /\ Commit

RemoveAt(s, i) == SubSeq(s, 1, i - 1) \o SubSeq(s, i + 1, Len(s))

\* Mutant: the wrong field of response.data is stored as the identifier.
processResolved_wrongField(i, response) ==
  /\ inflight' = RemoveAt(inflight, i)
  /\ processedFileId' = response.message
  /\ status' = SuccessStatus(response)
  /\ isLoading' = FALSE
  /\ lastResponse' = response
  /\ event' = "resolved"
  /\ UNCHANGED <<diseaseName, url, selectedFile, opened>>
  /\ Commit

\* Mutant: setIsLoading(false) sits in the catch block only.
processResolved_keepLoading(i, response) ==
  /\ inflight' = RemoveAt(inflight, i)
  /\ processedFileId' = response.file_id
  /\ status' = SuccessStatus(response)
  /\ lastResponse' = response
  /\ event' = "resolved"
  /\ UNCHANGED <<diseaseName, url, selectedFile, isLoading, opened>>
  /\ Commit

\* handleProcess after its await, the request resolved.
processResolved(i, response) ==
  /\ inflight' = RemoveAt(inflight, i)
  /\ processedFileId' = response.file_id
  /\ status' = SuccessStatus(response)
  /\ isLoading' = FALSE
  /\ lastResponse' = response
  /\ event' = "resolved"
  /\ UNCHANGED <<diseaseName, url, selectedFile, opened>>
  /\ Commit

\* Mutant: the catch block submits the same payload again.
processRejected_retry(i, error) ==
  /\ inflight' = Append(RemoveAt(inflight, i), inflight[i])
  /\ status' = ProcessingStatus
  /\ lastResponse' = error
  /\ event' = "rejected"
  /\ UNCHANGED <<diseaseName, url, selectedFile, isLoading, processedFileId,
                 opened>>
  /\ Commit

\* Mutant: setIsLoading(false) sits at the end of the try block only.
processRejected_keepLoading(i, error) ==
  /\ inflight' = RemoveAt(inflight, i)
  /\ status' = ErrorStatus(error)
  /\ lastResponse' = error
  /\ event' = "rejected"
  /\ UNCHANGED <<diseaseName, url, selectedFile, isLoading, processedFileId,
                 opened>>
  /\ Commit

\* handleProcess after its await, the request rejected.
processRejected(i, error) ==
  /\ inflight' = RemoveAt(inflight, i)
  /\ status' = ErrorStatus(error)
  /\ isLoading' = FALSE
  /\ lastResponse' = error
  /\ event' = "rejected"
  /\ UNCHANGED <<diseaseName, url, selectedFile, processedFileId, opened>>
  /\ Commit

\* Mutant: the early return of handleDownload is missing.
handleDownload_noGuard ==
  /\ opened' = <<API_BASE_URL, "/download/", processedFileId>>
  /\ event' = "handleDownload"
  /\ UNCHANGED <<diseaseName, url, selectedFile, status, isLoading,
                 processedFileId, inflight, lastResponse>>
  /\ Commit

handleDownload ==
  /\ IF ~Truthy(processedFileId)
     THEN UNCHANGED opened
     ELSE opened' = <<API_BASE_URL, "/download/", processedFileId>>
  /\ event' = "handleDownload"
  /\ UNCHANGED <<diseaseName, url, selectedFile, status, isLoading,
                 processedFileId, inflight, lastResponse>>
  /\ Commit

handleDownloadTemplate ==
  /\ opened' = <<API_BASE_URL, "/template">>
  /\ event' = "handleDownloadTemplate"
  /\ UNCHANGED <<diseaseName, url, selectedFile, status, isLoading,
                 processedFileId, inflight, lastResponse>>
  /\ Commit

(* ---------------- events ---------------- *)

\* Pending effects are flushed before the next event is handled.
RunEffect == stepEffect

SelectFile == ~effectPending /\ \E file \in PickedFiles : handleFileSelect(file)

DeleteChip == ~effectPending /\ chipDelete

EditDiseaseName ==
  ~effectPending /\ \E value \in DiseaseNames : setDiseaseName(value)

EditUrl == ~effectPending /\ \E value \in SourceUrls : setUrl(value)

\* A click on the Process button, which the browser delivers only while the
\* button is not disabled.
ClickProcess == ~effectPending /\ ~ProcessDisabled /\ handleProcess

ClickDownload == ~effectPending /\ ~DownloadDisabled /\ handleDownload

ClickDownloadTemplate == ~effectPending /\ handleDownloadTemplate

ResponseSuccess ==
  ~effectPending /\ \E i \in 1..Len(inflight) : \E response \in SuccessResponses :
    processResolved(i, response)

ResponseFailure ==
  ~effectPending /\ \E i \in 1..Len(inflight) : \E error \in FailureResponses :
    processRejected(i, error)

\* handleProcess and handleDownload called as functions, whatever the
\* disabled attribute of their buttons.
InvokeProcess == ~effectPending /\ handleProcess

InvokeDownload == ~effectPending /\ handleDownload

Next ==
  \/ RunEffect
  \/ SelectFile
  \/ DeleteChip
  \/ EditDiseaseName
  \/ EditUrl
  \/ ClickProcess
  \/ ClickDownload
  \/ ClickDownloadTemplate
  \/ ResponseSuccess
  \/ ResponseFailure

\* The application driven through its rendered controls.
Spec == Init /\ [][Next]_vars

\* The same, with scheduled effects run and a network that answers every
\* request: the answer is handled although other events, each followed by its
\* effect, keep arriving.
SpecLive ==
  Spec /\ WF_vars(RunEffect) /\ SF_vars(ResponseSuccess \/ ResponseFailure)

NextHandlers ==
  \/ RunEffect
  \/ SelectFile
  \/ DeleteChip
  \/ EditDiseaseName
  \/ EditUrl
  \/ InvokeProcess
  \/ InvokeDownload
  \/ ClickDownloadTemplate
  \/ ResponseSuccess
  \/ ResponseFailure

\* The handlers driven directly, bypassing the buttons' disabled attributes.
SpecHandlers == Init /\ [][NextHandlers]_vars


(* ---------------- properties ---------------- *)

\* C1: through the rendered controls, at most one POST /process request is
\* in flight; no second request is issued before the previous one resolved.
C1_AtMostOneInFlight == Len(inflight) <= 1

\* A request is in flight, the inputs are complete again after the user
\* replaced the file, and only isLoading keeps the Process button disabled.
C1_Witness ==
  /\ Len(inflight) = 1
  /\ ~InputsMissing
  /\ event = "handleFileSelect"
  /\ selectedFile # inflight[1].file

\* C2 (as claimed): handleProcess invoked while isLoading is true, with file,
\* disease name and source URL present, issues no second request.
C2_NoSecondRequestWhileLoading ==
  [][(event' = "handleProcess" /\ isLoading /\ ~InputsMissing)
       => inflight' = inflight]_vars

\* C3 (as claimed): after every event that sets selectedFile (accepted,
\* rejected or empty selection, chip removal) processedFileId is absent.
C3_FileEventClearsResult ==
  event \in {"handleFileSelect", "chipDelete"} => ~Truthy(processedFileId)

\* C4 (as claimed): after any change of selectedFile, diseaseName or url,
\* processedFileId is absent.
C4_AnyInputChangeClearsResult ==
  [][(selectedFile' # selectedFile \/ diseaseName' # diseaseName \/ url' # url)
       => ~Truthy(processedFileId')]_vars

\* C4 (amended): an accepted file selection and the chip removal leave
\* processedFileId absent; an edit of diseaseName or url leaves it as it was.
C4_AcceptedFileClearsEditsKeep ==
  /\ [][(event' = "chipDelete" \/ (event' = "handleFileSelect" /\ selectedFile' # NoFile))
          => ~Truthy(processedFileId')]_vars
  /\ [][event' \in {"setDiseaseName", "setUrl"}
          => processedFileId' = processedFileId]_vars

\* A new file was accepted while the previous run's result was still shown
\* with edited context, and the result is gone.
C4_Witness ==
  /\ event = "handleFileSelect"
  /\ selectedFile # NoFile
  /\ lastResponse.ok
  /\ ~isLoading
  /\ ~Truthy(processedFileId)
  /\ activeStep = 2

\* C5: processedFileId is absent initially; whenever it is present it is the
\* identifier returned by the submission that resolved with success; no step
\* other than a success gives it a new non-empty value.
C5_ResultOnlyFromSuccess ==
  /\ ~Truthy(processedFileId)
  /\ [](Truthy(processedFileId)
          => lastResponse.ok /\ processedFileId = lastResponse.file_id)
  /\ [][(processedFileId' # processedFileId /\ Truthy(processedFileId'))
          => (event' = "resolved" /\ processedFileId' = lastResponse'.file_id)]_vars

\* The identifier of a success is still held after later edits.
C5_Witness ==
  /\ event = "setUrl"
  /\ Truthy(processedFileId)
  /\ processedFileId = lastResponse.file_id

\* C6: isLoading is false initially, true only while an issued request has not
\* resolved, set to true by a submission start only, and false right after
\* every resolution.
C6_LoadingOnlyWhileInFlight ==
  /\ ~isLoading
  /\ [](isLoading => Len(inflight) >= 1)
  /\ [][(~isLoading /\ isLoading')
          => (event' = "handleProcess" /\ Len(inflight') = Len(inflight) + 1)]_vars
  /\ [][event' \in {"resolved", "rejected"} => ~isLoading']_vars

\* A submission has just started.
C6_Witness == event = "handleProcess" /\ isLoading /\ Len(inflight) = 1

\* C7: with a network that answers every request, every state with isLoading
\* true is followed by a state with isLoading false.
C7_LoadingEventuallyReset == isLoading ~> ~isLoading

\* A submission ended on the failure path with isLoading reset.
C7_Witness == event = "rejected" /\ ~isLoading /\ inflight = <<>>

\* C8: right after a success carrying file_id and message, processedFileId is
\* that file_id, isLoading is false, the status contains the message, the
\* derived wizard step is 3 and the step effect stores 3.
C8_SuccessOutcome ==
  event = "resolved" =>
    /\ processedFileId = lastResponse.file_id
    /\ Truthy(processedFileId)
    /\ ~isLoading
    /\ Contains(status, lastResponse.message)
    /\ deriveStep(processedFileId, selectedFile, diseaseName, url) = 3
    /\ (~effectPending => activeStep = 3)

\* The scenario of the specification: abc123 / Appended 10 rows.
C8_Witness ==
  /\ event = "resolved"
  /\ processedFileId = "abc123"
  /\ status = <<"Success: ", "Appended 10 rows">>
  /\ activeStep = 3

\* C9: right after a failure, isLoading is false, processedFileId is absent,
\* the status is an error message with the server's detail when there is one
\* and the transport error text otherwise, and the inputs are unchanged.
C9_FailureOutcome ==
  [][event' = "rejected" =>
       /\ ~isLoading'
       /\ ~Truthy(processedFileId')
       /\ status'[1] = "Error: "
       /\ IF lastResponse'.hasResponse /\ Truthy(lastResponse'.detail)
          THEN status'[2] = lastResponse'.detail
          ELSE status'[2] = lastResponse'.message
       /\ UNCHANGED <<selectedFile, diseaseName, url>>]_vars

\* The scenario of the specification: HTTP failure with detail Invalid URL.
C9_Witness ==
  /\ event = "rejected"
  /\ lastResponse.detail = "Invalid URL"
  /\ Contains(status, "Invalid URL")
  /\ ~isLoading

\* C10: handleProcess invoked with selectedFile, diseaseName or url missing
\* sets the must-complete status and changes nothing else; no request is
\* issued.
C10_PreconditionFailure ==
  [][(event' = "handleProcess" /\ InputsMissing) =>
       /\ status' = MustCompleteStatus
       /\ UNCHANGED <<inflight, isLoading, processedFileId, selectedFile,
                      diseaseName, url, activeStep, opened>>]_vars

\* handleProcess ran with a file selected and a context field empty.
C10_Witness ==
  /\ event = "handleProcess"
  /\ status = MustCompleteStatus
  /\ selectedFile # NoFile
  /\ inflight = <<>>

\* C11: the wizard step is 3 exactly when processedFileId is present,
\* whatever the file and the context fields are.
C11_CompletedIffResult ==
  /\ deriveStep(processedFileId, selectedFile, diseaseName, url) = 3
       <=> Truthy(processedFileId)
  /\ ~effectPending => (activeStep = 3 <=> Truthy(processedFileId))

\* The step is 3 although the file is gone and the context was edited.
C11_Witness ==
  /\ ~effectPending
  /\ activeStep = 3
  /\ selectedFile = NoFile
  /\ event \in {"setDiseaseName", "setUrl"}

\* C12: with the file, the disease name or the URL missing the Process button
\* is disabled and handleProcess issues no request; the button is enabled
\* exactly when all three are present and isLoading is false; a request is
\* issued only from a state with all three present.
C12_CanSubmit ==
  /\ []((selectedFile = NoFile \/ diseaseName = "" \/ url = "") => ProcessDisabled)
  /\ [](~ProcessDisabled <=>
          (selectedFile # NoFile /\ diseaseName # "" /\ url # "" /\ ~isLoading))
  /\ [][(~effectPending /\ event' = "handleProcess"
          /\ (selectedFile = NoFile \/ diseaseName = "" \/ url = ""))
          => (inflight' = inflight /\ isLoading' = isLoading)]_vars
  /\ [][Len(inflight') > Len(inflight)
          => (selectedFile # NoFile /\ diseaseName # "" /\ url # "")]_vars

\* handleProcess ran after the file was removed during a submission, and the
\* one request in flight is still the only one.
C12_Witness ==
  /\ event = "handleProcess"
  /\ status = MustCompleteStatus
  /\ selectedFile = NoFile
  /\ isLoading
  /\ Len(inflight) = 1

\* C13: a selection is accepted exactly when a file is provided and its type
\* is text/csv; a rejected selection leaves selectedFile empty, sets the
\* rejection message and touches neither the requests nor isLoading.
C13_FileAcceptance ==
  [][~effectPending =>
       \A f \in PickedFiles :
         handleFileSelect(f) =>
           IF f # NoFile /\ f.type = "text/csv"
           THEN selectedFile' = f /\ status' # InvalidFileStatus
           ELSE /\ selectedFile' = NoFile
                /\ status' = InvalidFileStatus
                /\ UNCHANGED <<inflight, isLoading>>]_vars

\* A selection was rejected while a request was in flight.
C13_Witness ==
  /\ event = "handleFileSelect"
  /\ status = InvalidFileStatus
  /\ selectedFile = NoFile
  /\ isLoading
  /\ Len(inflight) = 1

C15_AwaitingContextIffFileOnly ==
  ~effectPending =>
    (activeStep = 1 <=>
       (selectedFile # NoFile /\ (diseaseName = "" \/ url = "")))

\* C15 (amended): the step is 1 exactly when processedFileId is absent, a file
\* is selected and the disease name or the URL is missing.
C15_AwaitingContextIffNoResult ==
  ~effectPending =>
    (activeStep = 1 <=>
       (~Truthy(processedFileId) /\ selectedFile # NoFile
          /\ (diseaseName = "" \/ url = "")))

\* The scenario of the specification: patients.csv selected, context empty.
C15_Witness ==
  /\ ~effectPending
  /\ activeStep = 1
  /\ selectedFile = [name |-> "patients.csv", type |-> "text/csv"]
  /\ diseaseName = ""
  /\ url = ""

\* C16 (as claimed): while isLoading is true the two context fields can still
\* be edited.
C16_EditsEnabledInFlight ==
  (isLoading /\ ~effectPending) => (ENABLED EditDiseaseName /\ ENABLED EditUrl)

\* C16 (amended): while isLoading is true, submissions and edits of the two
\* context fields are blocked; file selection and chip removal stay enabled,
\* take effect and leave the request in flight as it is.
C16_OnlyFileEventsInFlight ==
  /\ []((isLoading /\ ~effectPending) =>
          /\ ~ENABLED EditDiseaseName
          /\ ~ENABLED EditUrl
          /\ ~ENABLED ClickProcess
          /\ ENABLED SelectFile)
  /\ [][isLoading => (diseaseName' = diseaseName /\ url' = url)]_vars
  /\ [][(isLoading /\ ~effectPending /\ event' \in {"handleFileSelect", "chipDelete"})
          => (inflight' = inflight /\ isLoading')]_vars

\* The file was removed through its chip while its request was in flight.
C16_Witness ==
  /\ event = "chipDelete"
  /\ isLoading
  /\ selectedFile = NoFile
  /\ Len(inflight) = 1
  /\ inflight[1].file # NoFile

\* C17: a submission that passes the precondition sets isLoading, clears
\* processedFileId and sets the in-progress status as it issues the request;
\* while a request is in flight and isLoading is true, processedFileId is
\* absent and the step is not 3.
C17_ResubmitInvalidatesResult ==
  /\ []((Len(inflight) >= 1 /\ isLoading) =>
          /\ ~Truthy(processedFileId)
          /\ deriveStep(processedFileId, selectedFile, diseaseName, url) # 3
          /\ (~effectPending => activeStep # 3))
  /\ [][(~effectPending /\ event' = "handleProcess" /\ ~InputsMissing) =>
          /\ isLoading'
          /\ ~Truthy(processedFileId')
          /\ status' = ProcessingStatus
          /\ Len(inflight') = Len(inflight) + 1]_vars

\* A resubmission after an earlier success: the earlier result is gone.
C17_Witness ==
  /\ event = "handleProcess"
  /\ isLoading
  /\ lastResponse.ok
  /\ ~Truthy(processedFileId)
  /\ ~effectPending
  /\ activeStep = 2

\* C18: after a failure with complete inputs the Process button is enabled
\* again; the requests in flight grow only by a handleProcess step, by exactly
\* one, and every resolution removes one request and issues none.
C18_ManualRetryOnly ==
  /\ []((event = "rejected" /\ ~InputsMissing) =>
          (~ProcessDisabled /\ ENABLED ClickProcess))
  /\ [][inflight' # inflight =>
          \/ (event' = "handleProcess" /\ Len(inflight') = Len(inflight) + 1)
          \/ (event' \in {"resolved", "rejected"}
                /\ Len(inflight') = Len(inflight) - 1)]_vars
  /\ [][(~effectPending /\ event' \in {"resolved", "rejected"})
          => Len(inflight') = Len(inflight) - 1]_vars

\* The user re-triggered the submission after a network error.
C18_Witness ==
  /\ event = "handleProcess"
  /\ lastResponse.message = "Network Error"
  /\ isLoading
  /\ Len(inflight) = 1

\* C19 (as claimed): whenever processedFileId is present a file is selected
\* and the result comes from a submission of that file: a success belongs to
\* the file selected when it arrives, and the file does not change while the
\* result is held.
C19_ResultBelongsToSelectedFile ==
  /\ [](Truthy(processedFileId) => selectedFile # NoFile)
  /\ [][(~effectPending /\ event' = "resolved") =>
          \E i \in 1..Len(inflight) :
            inflight' = RemoveAt(inflight, i) /\ inflight[i].file = selectedFile']_vars
  /\ [][(Truthy(processedFileId) /\ Truthy(processedFileId'))
          => selectedFile' = selectedFile]_vars

\* C20: handleDownload and handleDownloadTemplate change no workflow field;
\* handleDownload opens nothing when processedFileId is absent; the template
\* download can be triggered in every state in which events are handled.
C20_DownloadsFrameEffect ==
  /\ [][(~effectPending /\ event' \in {"handleDownload", "handleDownloadTemplate"}) =>
          UNCHANGED <<selectedFile, diseaseName, url, processedFileId,
                      isLoading, status, inflight, activeStep>>]_vars
  /\ [][(~effectPending /\ event' = "handleDownload" /\ ~Truthy(processedFileId))
          => opened' = opened]_vars
  /\ [](~effectPending => ENABLED ClickDownloadTemplate)

\* handleDownload ran without a result while a request was in flight, after
\* the template had been opened: the template is still the last URL opened.
C20_Witness ==
  /\ event = "handleDownload"
  /\ ~Truthy(processedFileId)
  /\ isLoading
  /\ opened = <<API_BASE_URL, "/template">>

====
